---- MODULE Spec2Model ----
(***************************************************************************)
(* EuromilhoesDB (db_utils.py): the CSV ledger data/resultados.csv, the    *)
(* SQLite mirror instance/euromilhoes.db with its table 'resultados', the  *)
(* page extractor and the reconciliation cycle atualizar_resultados.       *)
(*                                                                         *)
(* Representation                                                          *)
(*   text        a TLA+ string; a number is written with str() (ToString)  *)
(*               and read back with int() (IntOf), a date is written with  *)
(*               date.__str__ (DateStr) and read back with strptime.       *)
(*   date        a tuple <<year, month, day>>; None is the empty tuple.    *)
(*   csv_file    the ledger file: whether it exists and its lines, each    *)
(*               line the list of its comma-separated fields.              *)
(*   db_file     the mirror: whether the file exists, whether it holds the *)
(*               table 'resultados', and the table's rows.                 *)
(*   page        what requests.get returns, as the parts the extractor     *)
(*               looks up.  A results text is the list of its whitespace-  *)
(*               separated tokens, "+" being a token of its own.           *)
(* The exceptions modelled are the ones the data can cause and, in         *)
(* import_from_csv, a failure to open the SQLite file; other file-system   *)
(* faults of the environment are not modelled.                             *)
(***************************************************************************)
EXTENDS Integers, Sequences, FiniteSets, TLC

VARIABLES csv_file, db_file, op, ret, log, pre, novo_sorteio

vars == <<csv_file, db_file, op, ret, log, pre, novo_sorteio>>

\* How many of the days of DrawDays a page may report.
MaxDays == 3

None == <<>>

----------------------------------------------------------------------------
(* datetime.date                                                           *)

IsLeap(y) == (y % 4 = 0) /\ ((y % 100 # 0) \/ (y % 400 = 0))

DaysInMonth(y, m) ==
    IF m = 2 THEN (IF IsLeap(y) THEN 29 ELSE 28)
    ELSE IF m \in {4, 6, 9, 11} THEN 30 ELSE 31

RECURSIVE DaysBeforeMonth(_, _)
DaysBeforeMonth(y, m) ==
    IF m = 1 THEN 0 ELSE DaysBeforeMonth(y, m - 1) + DaysInMonth(y, m - 1)

DaysBeforeYear(y) ==
    (y - 1) * 365 + ((y - 1) \div 4) - ((y - 1) \div 100) + ((y - 1) \div 400)

\* date.toordinal(): 0001-01-01 is day 1
toordinal(d) == DaysBeforeYear(d[1]) + DaysBeforeMonth(d[1], d[2]) + d[3]

\* date.weekday(): Monday is 0
weekday(d) == (toordinal(d) + 6) % 7

\* date.strftime("%A")
DayName(d) ==
    <<"Monday", "Tuesday", "Wednesday", "Thursday", "Friday", "Saturday",
      "Sunday">>[weekday(d) + 1]

DateGreater_DayFirst(a, b) ==
    \/ a[3] > b[3]
    \/ a[3] = b[3] /\ a[2] > b[2]
    \/ a[3] = b[3] /\ a[2] = b[2] /\ a[1] > b[1]

\* date > date, as Python compares (year, month, day)
DateGreater(a, b) ==
    \/ a[1] > b[1]
    \/ a[1] = b[1] /\ a[2] > b[2]
    \/ a[1] = b[1] /\ a[2] = b[2] /\ a[3] > b[3]

Pad2(n) == IF n < 10 THEN "0" \o ToString(n) ELSE ToString(n)

\* str(date) and strftime("%Y-%m-%d"): YYYY-MM-DD
DateStr(d) == ToString(d[1]) \o "-" \o Pad2(d[2]) \o "-" \o Pad2(d[3])

\* strftime("%Y-%m")
MonthKey(d) == ToString(d[1]) \o "-" \o Pad2(d[2])

\* The page's rendering of a date, DD/MM/YYYY
PageDateStr(d) == Pad2(d[3]) \o "/" \o Pad2(d[2]) \o "/" \o ToString(d[1])

\* The dates the parsers can produce here
Calendar ==
    {c \in {2024} \X (5..6) \X (1..31) : c[3] <= DaysInMonth(c[1], c[2])}

IsoTexts == {DateStr(d) : d \in Calendar}

IsoDate == [t \in IsoTexts |-> CHOOSE d \in Calendar : DateStr(d) = t]

PageTexts == {PageDateStr(d) : d \in Calendar}

PageDate == [t \in PageTexts |-> CHOOSE d \in Calendar : PageDateStr(d) = t]

MonthTexts == {MonthKey(d) : d \in Calendar}

\* datetime.strptime(text, "%Y-%m-%d").date(); None stands for the ValueError
strptime_iso(text) == IF text \in IsoTexts THEN IsoDate[text] ELSE None

\* datetime.strptime(text, "%d/%m/%Y").date(); None stands for the ValueError
strptime_page(text) == IF text \in PageTexts THEN PageDate[text] ELSE None

----------------------------------------------------------------------------
(* int() and str.isdigit()                                                 *)

Numerals == 0..60

\* Decimal texts of n, with the leading zeros a page may print
IntTexts(n) == {ToString(n), "0" \o ToString(n), "00" \o ToString(n)}

DigitTexts == UNION {IntTexts(n) : n \in Numerals}

IntValue == [t \in DigitTexts |-> CHOOSE n \in Numerals : t \in IntTexts(n)]

IntText == [n \in Numerals |-> ToString(n)]

isdigit(text) == text \in DigitTexts

\* int(text) for a text that isdigit; the caller handles the ValueError
IntOf(text) == IntValue[text]

\* str(n)
StrOf(n) == IntText[n]

----------------------------------------------------------------------------
(* The source page                                                         *)

\* Days a page may report: Tuesday, Friday, Saturday, Tuesday, Friday, ...
DrawDays ==
    << <<2024, 5, 28>>, <<2024, 5, 31>>, <<2024, 6, 1>>, <<2024, 6, 4>>,
       <<2024, 6, 7>>, <<2024, 6, 11>>, <<2024, 6, 14>> >>

DateOf(i) == DrawDays[i + 1]

Dates == {DateOf(i) : i \in 0..(MaxDays - 1)}

\* Draw numbers as the page prints them ("Sorteio: 040/2024")
SourceNumbers == {"040", "7"}

\* Texts of the second <li>, as token lists
Text5 == <<"3", "12", "25", "48", "33", "+", "2", "10">>
Text6 == <<"3", "12", "25", "48", "33", "50", "+", "2", "10">>
Text1Star == <<"3", "12", "25", "48", "33", "+", "2">>
TextNoPlus == <<"1", "2", "3", "4", "5", "6", "7">>
TextTwoPlus == <<"3", "12", "25", "48", "33", "+", "2", "+", "10">>

ResultTexts == {Text5, Text6, Text1Star, TextNoPlus, TextTwoPlus}

\* The decorative first <li>
FirstLi == <<"3", "12", "25", "33", "48", "+", "2", "10">>

\* A page on which every lookup succeeds
GoodPage(d, num, texto, venc) ==
    [ raises     |-> FALSE,
      status     |-> 200,
      dataInfo   |-> <<num, PageDateStr(d)>>,
      betMiddle  |-> TRUE,
      ul         |-> TRUE,
      todas_li   |-> <<FirstLi, texto>>,
      litleCol   |-> venc ]

SamplePage == GoodPage(DateOf(0), "040", Text5, <<"3">>)

GoodPages ==
    {GoodPage(d, num, Text5, <<"3">>) : d \in Dates, num \in SourceNumbers}
    \cup {GoodPage(d, "040", Text6, <<"3">>) : d \in Dates}
    \cup {GoodPage(DateOf(1), "040", t, <<"-">>) : t \in ResultTexts}

FaultPages ==
    { [SamplePage EXCEPT !.raises = TRUE],
      [SamplePage EXCEPT !.status = 500],
      [SamplePage EXCEPT !.dataInfo = None],
      [SamplePage EXCEPT !.dataInfo = <<"abc", PageDateStr(DateOf(0))>>],
      [SamplePage EXCEPT !.dataInfo = <<"040", DateStr(DateOf(0))>>],
      [SamplePage EXCEPT !.betMiddle = FALSE],
      [SamplePage EXCEPT !.ul = FALSE],
      [SamplePage EXCEPT !.todas_li = <<Text5>>],
      [SamplePage EXCEPT !.litleCol = None] }

Pages == GoodPages \cup FaultPages

----------------------------------------------------------------------------
(* obter_resultados                                                        *)

\* str.split("+") on a token list: the segments between the "+" tokens
RECURSIVE SplitPlus(_)
SplitPlus(texto) ==
    IF \A i \in 1..Len(texto) : texto[i] # "+" THEN <<texto>>
    ELSE LET i == CHOOSE j \in 1..Len(texto) :
                      texto[j] = "+" /\ \A k \in 1..(j - 1) : texto[k] # "+"
         IN  <<SubSeq(texto, 1, i - 1)>>
             \o SplitPlus(SubSeq(texto, i + 1, Len(texto)))

SorteioTipo_TuesdayTest(d) ==
    IF DayName(d) = "Tuesday" THEN "Terca-Feira" ELSE "Sexta-Feira"

\* "Sexta-Feira" if dia_semana == "Friday" else "Terça-Feira"
SorteioTipo(d) == IF DayName(d) = "Friday" THEN "Sexta-Feira" ELSE "Terca-Feira"

\* numero_vencedores
NumeroVencedores(litleCol) ==
    IF litleCol = None THEN 0
    ELSE IF isdigit(litleCol[1]) THEN IntOf(litleCol[1]) ELSE 0

Returned(dados, msg) == [raised |-> FALSE, dados |-> dados, msg |-> msg]

Raised(msg) == [raised |-> TRUE, dados |-> None, msg |-> msg]

\* The list dados, as a record; <<record>> is the list, <<>> is None.
\* dados[0] is numero, dados[1] is data.
obter_resultados(page) ==
    IF page.raises THEN Raised("ConnectionError")
    ELSE IF page.status # 200 THEN Returned(None, "Erro ao acessar o site")
    ELSE IF page.dataInfo = None
    THEN Returned(None, "Informacao sobre o sorteio nao encontrada")
    ELSE IF ~isdigit(page.dataInfo[1]) \/ strptime_page(page.dataInfo[2]) = None
    THEN Raised("ValueError")
    ELSE IF ~page.betMiddle THEN Returned(None, "Div betMiddle nao encontrada")
    ELSE IF ~page.ul THEN Returned(None, "Lista de resultados nao encontrada")
    ELSE IF Len(page.todas_li) < 2
    THEN Returned(None, "Nao foram encontrados elementos li suficientes")
    ELSE LET partes == SplitPlus(page.todas_li[2])
             data_sorteio == strptime_page(page.dataInfo[2])
         IN  IF Len(partes) # 2
             THEN Returned(None, "Formato do resultado nao esta correto")
             ELSE Returned(
                    << [ numero     |-> IntOf(page.dataInfo[1]),
                         data       |-> data_sorteio,
                         mes        |-> MonthKey(data_sorteio),
                         numeros    |-> partes[1],
                         estrelas   |-> partes[2],
                         vencedores |-> NumeroVencedores(page.litleCol),
                         tipo       |-> SorteioTipo(data_sorteio) ] >>,
                    "Dados formatados para CSV")

----------------------------------------------------------------------------
(* The ledger: ler_ultimo_sorteio, salvar_novo_sorteio                     *)

Header ==
    <<"DRAW_NUMBER", "DATE", "MONTH", "N1", "N2", "N3", "N4", "N5", "S1",
      "S2", "WINNERS", "TYPE">>

AbsentCsv == [exists |-> FALSE, lines |-> <<>>]

HeaderOnlyCsv == [exists |-> TRUE, lines |-> <<Header>>]

NonEmpty(row) == row # <<>>

\* What ler_ultimo_sorteio returns and leaves behind
LastRead(csv, n, data, registro, msg) ==
    [csv |-> csv, n |-> n, data |-> data, registro |-> registro, msg |-> msg]

\* The body of the try block: the last non-empty row after the header
ReadLastRow(csv) ==
    IF csv.lines = <<>>
    THEN LastRead(csv, 0, None, None, "Erro ao ler o CSV")
    ELSE LET rows == SelectSeq(Tail(csv.lines), NonEmpty)
         IN  IF rows = <<>> THEN LastRead(csv, 0, None, None, "")
             ELSE LET ultimo_registro == rows[Len(rows)]
                  IN  IF \/ ~isdigit(ultimo_registro[1])
                         \/ Len(ultimo_registro) < 2
                         \/ strptime_iso(ultimo_registro[2]) = None
                      THEN LastRead(csv, 0, None, None, "Erro ao ler o CSV")
                      ELSE LastRead(csv, IntOf(ultimo_registro[1]),
                                    strptime_iso(ultimo_registro[2]),
                                    ultimo_registro, "")

ler_ultimo_sorteio_NoHeader(csv) ==
    IF ~csv.exists
    THEN LastRead([exists |-> TRUE, lines |-> <<>>], 0, None, None, "")
    ELSE ReadLastRow(csv)

ler_ultimo_sorteio(csv) ==
    IF ~csv.exists
    THEN LastRead(HeaderOnlyCsv, 0, None, None, "")
    ELSE ReadLastRow(csv)

\* csv.writer.writerow(dados): str() of each element, in list order
CsvRow(dados) ==
    <<StrOf(dados.numero), DateStr(dados.data), dados.mes>>
    \o dados.numeros \o dados.estrelas
    \o <<StrOf(dados.vencedores), dados.tipo>>

salvar_novo_sorteio_Rewrites(csv, dados) ==
    [exists |-> TRUE, lines |-> <<Header, CsvRow(dados)>>]

\* open(mode='a') creates the file when it is absent
salvar_novo_sorteio(csv, dados) ==
    [exists |-> TRUE, lines |-> Append(csv.lines, CsvRow(dados))]

----------------------------------------------------------------------------
(* The mirror: import_from_csv, clear_database, delete_database            *)

AbsentDb == [exists |-> FALSE, has_table |-> FALSE, rows |-> <<>>]

NaN == "NaN"

\* The value pandas holds for a cell text: numbers are parsed
CellValue(text) == IF isdigit(text) THEN StrOf(IntOf(text)) ELSE text

Max(a, b) == IF a > b THEN a ELSE b

\* pd.read_csv: blank lines are skipped; when the first data line has more
\* fields than the header, the leading surplus fields are the index (dropped
\* by to_sql(index=False)); a line with more fields than that is a
\* ParserError; short lines are padded with NaN.  ok = FALSE is the exception.
ReadCsvResult(ok, columns, rows) ==
    [ok |-> ok, columns |-> columns, rows |-> rows]

\* The frame read from the header and the data lines, the first lead fields
\* of each line being the index
Frame(columns, data, lead) ==
    IF \E i \in 1..Len(data) : Len(data[i]) > Len(columns) + lead
    THEN ReadCsvResult(FALSE, <<>>, <<>>)
    ELSE ReadCsvResult(TRUE, columns,
           [i \in 1..Len(data) |->
              [j \in 1..Len(columns) |->
                 IF lead + j <= Len(data[i])
                 THEN CellValue(data[i][lead + j]) ELSE NaN]])

Lead(columns, data) ==
    IF data = <<>> THEN 0 ELSE Max(0, Len(data[1]) - Len(columns))

Parsed(columns, data) == Frame(columns, data, Lead(columns, data))

read_csv(lines) ==
    IF lines = <<>> THEN ReadCsvResult(FALSE, <<>>, <<>>)
    ELSE Parsed(lines[1], SelectSeq(Tail(lines), NonEmpty))

\* Whether pd.to_datetime accepts the cell (an error otherwise)
to_datetime_ok(cell) ==
    \/ cell = NaN
    \/ strptime_iso(cell) # None
    \/ cell \in MonthTexts
    \/ isdigit(cell)

\* pd.to_datetime(cell) followed by strftime('%Y-%m-%d'): a full date is
\* kept, a year-month is its first day, an integer is nanoseconds since 1970
to_datetime_strftime(cell) ==
    IF cell = NaN THEN NaN
    ELSE IF strptime_iso(cell) # None THEN DateStr(strptime_iso(cell))
    ELSE IF cell \in MonthTexts THEN cell \o "-01"
    ELSE "1970-01-01"

ColumnIndex(columns, name) == CHOOSE j \in 1..Len(columns) : columns[j] = name

ImportResult(db, n, msg) == [db |-> db, n |-> n, msg |-> msg]

to_sql_Appends(db, rows) ==
    [exists |-> TRUE, has_table |-> TRUE, rows |-> db.rows \o rows]

\* df.to_sql('resultados', conn, if_exists='replace', index=False)
to_sql(db, rows) == [exists |-> TRUE, has_table |-> TRUE, rows |-> rows]

ImportAbsent_CreatesTable(db) ==
    ImportResult(to_sql(db, <<>>), 0, "Arquivo CSV nao encontrado")

\* if not self.csv_path.exists(): return 0
ImportAbsent(db) == ImportResult(db, 0, "Arquivo CSV nao encontrado")

\* The DATE column (number c) normalised, then to_sql
Normalised(df, c, db, fault) ==
    IF \E i \in 1..Len(df.rows) : ~to_datetime_ok(df.rows[i][c])
    THEN ImportResult(db, 0,
                      "Erro ao importar dados: Unknown datetime string format")
    ELSE IF fault
    THEN ImportResult(db, 0,
                      "Erro ao importar dados: unable to open database file")
    ELSE ImportResult(
           to_sql(db,
                  [i \in 1..Len(df.rows) |->
                     [df.rows[i] EXCEPT ![c] = to_datetime_strftime(@)]]),
           Len(df.rows), "")

\* The try block once the file has been read into df
Imported(df, db, fault) ==
    IF ~df.ok
    THEN ImportResult(db, 0, "Erro ao importar dados: Error tokenizing data")
    ELSE IF \A j \in 1..Len(df.columns) : df.columns[j] # "DATE"
    THEN ImportResult(db, 0, "Erro ao importar dados: 'DATE'")
    ELSE Normalised(df, ColumnIndex(df.columns, "DATE"), db, fault)

\* fault: sqlite3.connect cannot open the database file
import_from_csv(csv, db, fault) ==
    IF ~csv.exists THEN ImportAbsent(db)
    ELSE Imported(read_csv(csv.lines), db, fault)

clear_database(db) ==
    IF ~db.exists THEN db
    ELSE [exists |-> TRUE, has_table |-> FALSE, rows |-> <<>>]

delete_database(db) == AbsentDb

----------------------------------------------------------------------------
(* Return values                                                           *)

RetNone == [kind |-> "None", n |-> 0, data |-> None, registro |-> None]

RetRaise == [kind |-> "raise", n |-> 0, data |-> None, registro |-> None]

RetInt(n) == [kind |-> "int", n |-> n, data |-> None, registro |-> None]

RetTuple(n, data, registro) ==
    [kind |-> "tuple", n |-> n, data |-> data, registro |-> registro]

Snapshot == [csv |-> csv_file, db |-> db_file]

IsPrinted(msg) == msg # ""

\* What the calls of one operation printed, in order
Printed(msgs) == SelectSeq(msgs, IsPrinted)

----------------------------------------------------------------------------
(* atualizar_resultados                                                    *)

Accepts_OrEqual(ultima_data, data) ==
    ultima_data = None \/ ~DateGreater(ultima_data, data)

\* if ultima_data is None or novo_sorteio[1] > ultima_data
Accepts(ultima_data, data) ==
    ultima_data = None \/ DateGreater(data, ultima_data)

Renumbered_KeepsPageNumber(dados, ultimo_sorteio) == dados

Renumbered_NoIncrement(dados, ultimo_sorteio) ==
    [dados EXCEPT !.numero = ultimo_sorteio]

\* novo_sorteio[0] = ultimo_sorteio + 1
Renumbered(dados, ultimo_sorteio) == [dados EXCEPT !.numero = ultimo_sorteio + 1]

CycleResult(csv, db, r, msgs, novo) ==
    [csv |-> csv, db |-> db, ret |-> r, log |-> Printed(msgs), novo |-> novo]

OnRejection_Rebuilds(csv, db) == import_from_csv(csv, db, FALSE).db

\* The else branch prints and leaves the mirror alone
OnRejection(csv, db) == db

\* The cycle once the ledger has been read (last) and the page fetched (got)
Reconcile(last, got, db, fault) ==
    IF got.raised
    THEN CycleResult(last.csv, db, RetRaise, <<last.msg, got.msg>>, None)
    ELSE IF got.dados = None
    THEN CycleResult(last.csv, db, RetNone, <<last.msg, got.msg>>, None)
    ELSE IF Accepts(last.data, got.dados[1].data)
    THEN LET novo == Renumbered(got.dados[1], last.n)
             saved == salvar_novo_sorteio(last.csv, novo)
             imp == import_from_csv(saved, db, fault)
         IN  CycleResult(saved, imp.db, RetNone,
                         <<last.msg, got.msg,
                           "Novo sorteio salvo no arquivo CSV", imp.msg>>,
                         <<novo>>)
    ELSE CycleResult(last.csv, OnRejection(last.csv, db), RetNone,
                     <<last.msg, got.msg,
                       "O sorteio mais recente ja esta registrado">>,
                     got.dados)

atualizar_resultados(csv, db, page, fault) ==
    Reconcile(ler_ultimo_sorteio(csv), obter_resultados(page), db, fault)

----------------------------------------------------------------------------
(* The operations of main()                                                *)

TypeOK ==
    /\ csv_file.exists \in BOOLEAN
    /\ db_file.exists \in BOOLEAN
    /\ db_file.has_table => db_file.exists
    /\ ret.kind \in {"None", "raise", "int", "tuple"}

Init ==
    /\ csv_file \in {AbsentCsv, HeaderOnlyCsv}
    /\ db_file = AbsentDb
    /\ op = "init"
    /\ ret = RetNone
    /\ log = <<>>
    /\ pre = [csv |-> csv_file, db |-> db_file]
    /\ novo_sorteio = None

ViewDatabase ==
    /\ op' = "view_database"
    /\ pre' = Snapshot
    /\ ret' = RetNone
    /\ log' = IF ~db_file.exists THEN <<"Banco de dados nao encontrado">>
              ELSE IF ~db_file.has_table
              THEN <<"Tabela 'resultados' nao encontrada">>
              ELSE <<"Informacoes do Banco de Dados">>
    /\ novo_sorteio' = None
    /\ UNCHANGED <<csv_file, db_file>>

ClearDatabase ==
    /\ op' = "clear_database"
    /\ pre' = Snapshot
    /\ db_file' = clear_database(db_file)
    /\ ret' = RetNone
    /\ log' = IF ~db_file.exists THEN <<"Banco de dados nao encontrado">>
              ELSE <<"Banco de dados limpo com sucesso">>
    /\ novo_sorteio' = None
    /\ UNCHANGED csv_file

DeleteDatabase ==
    /\ op' = "delete_database"
    /\ pre' = Snapshot
    /\ db_file' = delete_database(db_file)
    /\ ret' = RetNone
    /\ log' = IF db_file.exists
              THEN <<"Arquivo do banco de dados removido com sucesso">>
              ELSE <<"Arquivo do banco de dados nao encontrado">>
    /\ novo_sorteio' = None
    /\ UNCHANGED csv_file

ImportFromCsv ==
    \E fault \in BOOLEAN :
        \E imp \in {import_from_csv(csv_file, db_file, fault)} :
            /\ op' = "import_from_csv"
            /\ pre' = Snapshot
            /\ db_file' = imp.db
            /\ ret' = RetInt(imp.n)
            /\ log' = Printed(<<imp.msg>>)
            /\ novo_sorteio' = None
            /\ UNCHANGED csv_file

LerUltimoSorteio ==
    \E last \in {ler_ultimo_sorteio(csv_file)} :
        /\ op' = "ler_ultimo_sorteio"
        /\ pre' = Snapshot
        /\ csv_file' = last.csv
        /\ ret' = RetTuple(last.n, last.data, last.registro)
        /\ log' = Printed(<<last.msg>>)
        /\ novo_sorteio' = None
        /\ UNCHANGED db_file

AtualizarResultados ==
    \E page \in Pages, fault \in BOOLEAN :
        \E c \in {atualizar_resultados(csv_file, db_file, page, fault)} :
            /\ op' = "atualizar_resultados"
            /\ pre' = Snapshot
            /\ csv_file' = c.csv
            /\ db_file' = c.db
            /\ ret' = c.ret
            /\ log' = c.log
            /\ novo_sorteio' = c.novo

Next ==
    \/ ViewDatabase
    \/ ClearDatabase
    \/ DeleteDatabase
    \/ ImportFromCsv
    \/ LerUltimoSorteio
    \/ AtualizarResultados

Spec == Init /\ [][Next]_vars

\* Ledger files as they may be found on disk when the program starts: a
\* zero-byte file, and files whose last row has an unreadable DRAW_NUMBER,
\* a DATE not in YYYY-MM-DD, or a single field
GoodRow(n, d) ==
    <<StrOf(n), DateStr(d), MonthKey(d), "3", "12", "25", "48", "33", "2",
      "10", "0", SorteioTipo(d)>>

ExternalLedgers ==
    { [exists |-> TRUE, lines |-> <<>>],
      [exists |-> TRUE,
       lines |-> <<Header, GoodRow(1, DateOf(0)),
                   [GoodRow(2, DateOf(1)) EXCEPT ![1] = "abc"]>>],
      [exists |-> TRUE,
       lines |-> <<Header, GoodRow(1, DateOf(0)),
                   [GoodRow(2, DateOf(1)) EXCEPT ![2] = PageDateStr(DateOf(1))]>>],
      [exists |-> TRUE, lines |-> <<Header, GoodRow(1, DateOf(0)), <<"2">>>>] }

InitExt ==
    /\ csv_file \in ExternalLedgers
    /\ db_file = AbsentDb
    /\ op = "init"
    /\ ret = RetNone
    /\ log = <<>>
    /\ pre = [csv |-> csv_file, db |-> db_file]
    /\ novo_sorteio = None

SpecExt == InitExt /\ [][Next]_vars

\* Mirror files as they may be found on disk beside a missing ledger: one
\* whose table holds a row, one without the table
StaleMirrors ==
    { to_sql(AbsentDb, <<GoodRow(1, DateOf(0))>>), clear_database(to_sql(AbsentDb, <<>>)) }

InitStale ==
    /\ csv_file = AbsentCsv
    /\ db_file \in StaleMirrors
    /\ op = "init"
    /\ ret = RetNone
    /\ log = <<>>
    /\ pre = [csv |-> csv_file, db |-> db_file]
    /\ novo_sorteio = None

SpecStale == InitStale /\ [][Next]_vars

----------------------------------------------------------------------------
(* Properties                                                              *)

\* The data rows of a ledger file: its lines after the header line
DataRows(csv) == IF csv.lines = <<>> THEN <<>> ELSE Tail(csv.lines)

IsPrefix(s, t) == Len(s) <= Len(t) /\ SubSeq(t, 1, Len(s)) = s

CycleEnded == op = "atualizar_resultados"

\* The cycle that just ended added one row to the ledger
Appended ==
    /\ CycleEnded
    /\ Len(DataRows(csv_file)) = Len(DataRows(pre.csv)) + 1

\* The cycle that just ended got a record from the page
Fetched == CycleEnded /\ novo_sorteio # None

FaultMessages ==
    { "Erro ao acessar o site",
      "Informacao sobre o sorteio nao encontrada",
      "Div betMiddle nao encontrada",
      "Lista de resultados nao encontrada",
      "Nao foram encontrados elementos li suficientes",
      "Formato do resultado nao esta correto" }

\* The cycle that just ended failed in its fetch/parse step
FetchFailed == CycleEnded /\ \E i \in 1..Len(log) : log[i] \in FaultMessages

\* C1: starting from an absent or header-only ledger, the DRAW_NUMBER column
\* read top to bottom is 1, 2, ..., n, whatever numbers the page reported.
C1_MonotonicNumbering ==
    \A i \in 1..Len(DataRows(csv_file)) : DataRows(csv_file)[i][1] = StrOf(i)

C1_Witness ==
    /\ Appended
    /\ Len(DataRows(csv_file)) = MaxDays
    /\ \A num \in SourceNumbers : IntOf(num) > MaxDays

\* C2: a cycle whose fetch succeeded appends iff the ledger had no last date
\* or the scraped date is strictly later than the last ledger date.
C2_DateGatedAcceptance ==
    Fetched =>
        LET ultima_data == ler_ultimo_sorteio(pre.csv).data
        IN  Appended <=>
              (ultima_data = None
                 \/ toordinal(novo_sorteio[1].data) > toordinal(ultima_data))

C2_Witness ==
    /\ Fetched
    /\ ~Appended
    /\ novo_sorteio[1].data = ler_ultimo_sorteio(pre.csv).data

\* C3 as stated: after a failed fetch the ledger file and the mirror are
\* what they were when the cycle started, the file's existence included.
C3_NoMutationOnFault ==
    FetchFailed => csv_file = pre.csv /\ db_file = pre.db

\* C3 amended: after a failed fetch the mirror and the ledger's data rows are
\* unchanged; an existing ledger file is untouched and an absent one has been
\* created holding only the header.
C3_NoDataMutationOnFault ==
    FetchFailed =>
        /\ db_file = pre.db
        /\ DataRows(csv_file) = DataRows(pre.csv)
        /\ pre.csv.exists => csv_file = pre.csv
        /\ ~pre.csv.exists => csv_file = [exists |-> TRUE, lines |-> <<Header>>]

C3_Witness ==
    /\ FetchFailed
    /\ ~pre.csv.exists
    /\ csv_file.exists
    /\ log[Len(log)] = "Formato do resultado nao esta correto"

\* The table a ledger's data rows make: one row per data row, the row's
\* fields under the header's twelve columns in order, as stored values
TableOf(rows) ==
    [i \in 1..Len(rows) |->
       [j \in 1..Len(Header) |->
          IF j <= Len(rows[i]) THEN CellValue(rows[i][j]) ELSE NaN]]

MirrorEqualsLedger ==
    /\ db_file.has_table
    /\ \A i \in 1..Len(DataRows(csv_file)) :
           Len(DataRows(csv_file)[i]) <= Len(Header)
    /\ db_file.rows = TableOf(DataRows(csv_file))

\* The operation that just ended could not open the SQLite file
ConnectFault ==
    \E i \in 1..Len(log) :
        log[i] = "Erro ao importar dados: unable to open database file"

\* C4: at the end of every cycle that appended a record (and could open the
\* SQLite file), the rows of the table 'resultados' are the data rows of the
\* ledger, in order, with the same column values.
C4_MirrorNeverDrifts == (Appended /\ ~ConnectFault) => MirrorEqualsLedger

\* C5: the ledger's data rows before any operation are a prefix of its data
\* rows after it: no row is changed, removed or reordered.
C5_AppendOnly == IsPrefix(DataRows(pre.csv), DataRows(csv_file))

C5_Witness ==
    /\ Appended
    /\ Len(DataRows(pre.csv)) >= 1
    /\ DataRows(csv_file)[1] = DataRows(pre.csv)[1]

RowNumber(row) == IntOf(row[1])

RowOrdinal(row) == toordinal(strptime_iso(row[2]))

\* C6: of any two ledger rows the one with the smaller DRAW_NUMBER has the
\* strictly earlier DATE, and DATE strictly increases from top to bottom.
C6_LedgerOrdering ==
    LET rows == DataRows(csv_file)
    IN  \A i, j \in 1..Len(rows) :
            /\ RowNumber(rows[i]) < RowNumber(rows[j])
                 => RowOrdinal(rows[i]) < RowOrdinal(rows[j])
            /\ i < j => RowOrdinal(rows[i]) < RowOrdinal(rows[j])

C6_Witness ==
    /\ Len(DataRows(csv_file)) >= 2
    /\ strptime_iso(DataRows(csv_file)[1][2])[2]
         # strptime_iso(DataRows(csv_file)[2][2])[2]

\* The ledger exists and its header is missing or its final data row does
\* not parse
LedgerCorrupt(csv) ==
    /\ csv.exists
    /\ \/ csv.lines = <<>>
       \/ csv.lines[1] # Header
       \/ LET rows == SelectSeq(DataRows(csv), NonEmpty)
          IN  /\ rows # <<>>
              /\ \/ ~isdigit(rows[Len(rows)][1])
                 \/ Len(rows[Len(rows)]) < 2
                 \/ rows[Len(rows)][2] \notin IsoTexts

\* C7: on a corrupt ledger ler_ultimo_sorteio ends in a fault its caller can
\* tell apart from the empty-ledger result (0, None, None).
C7_CorruptionIsHardFault ==
    (op = "ler_ultimo_sorteio" /\ LedgerCorrupt(pre.csv))
        => ret # RetTuple(0, None, None)

\* C8: ler_ultimo_sorteio on an absent ledger creates the file with only the
\* 12-column header and returns (0, None, None); on a header-only ledger it
\* returns (0, None, None); a cycle on such a ledger that fetches a record
\* appends it with DRAW_NUMBER 1.
C8_EmptyLedgerBootstrap ==
    /\ (op = "ler_ultimo_sorteio" /\ ~pre.csv.exists)
         => /\ csv_file.exists
            /\ csv_file.lines =
                 << <<"DRAW_NUMBER", "DATE", "MONTH", "N1", "N2", "N3",
                      "N4", "N5", "S1", "S2", "WINNERS", "TYPE">> >>
            /\ ret = RetTuple(0, None, None)
    /\ (op = "ler_ultimo_sorteio" /\ pre.csv = HeaderOnlyCsv)
         => /\ csv_file = pre.csv
            /\ ret = RetTuple(0, None, None)
    /\ (Fetched /\ pre.csv \in {AbsentCsv, HeaderOnlyCsv})
         => /\ Appended
            /\ Len(csv_file.lines) = 2
            /\ csv_file.lines[1] = Header
            /\ csv_file.lines[2][1] = "1"

C8_Witness ==
    /\ Fetched
    /\ ~pre.csv.exists
    /\ Len(DataRows(csv_file)) = 1

\* The pages whose draw-number text the extractor can read
NumberedPages ==
    {page \in Pages : page.dataInfo # None /\ isdigit(page.dataInfo[1])}

WithNumber(page, num) == [page EXCEPT !.dataInfo[1] = num]

\* C9: a cycle run from the same ledger and mirror (the SQLite file opening)
\* on pages that differ only in the reported draw number ends with the same
\* ledger and mirror, and in every cycle that appended the
\* DRAW_NUMBER written is the ledger's last number plus one.  Holding in
\* every reachable state, the first conjunct keeps two such runs equal cycle
\* after cycle.
C9_SourceNumberNoInfluence ==
    /\ \A page \in NumberedPages :
         \A a \in {atualizar_resultados(csv_file, db_file, page, FALSE)} :
           \A num \in SourceNumbers \ {page.dataInfo[1]} :
             \A b \in {atualizar_resultados(csv_file, db_file,
                                            WithNumber(page, num), FALSE)} :
               a.csv = b.csv /\ a.db = b.db
    /\ Appended =>
         csv_file.lines[Len(csv_file.lines)][1]
           = StrOf(ler_ultimo_sorteio(pre.csv).n + 1)

C9_Witness ==
    /\ Appended
    /\ Len(DataRows(csv_file)) = 2
    /\ csv_file.lines[3][1] = "2"

\* What the cycle that just ended did
Outcome ==
    IF Appended THEN "Appended"
    ELSE IF Fetched THEN "AlreadyCurrent"
    ELSE IF ret.kind = "raise" THEN "Raised"
    ELSE log[Len(log)]

\* C10: what a cycle gives its caller tells Appended, AlreadyCurrent and
\* each kind of fault apart: two cycles that return the same value had the
\* same outcome.
C10_FaultsSurfaced ==
    [][(CycleEnded /\ CycleEnded' /\ ret' = ret) => Outcome' = Outcome]_vars

Rebuilt == op = "import_from_csv"

\* C11: a rebuild on an existing ledger (that could open the SQLite file),
\* from whatever the mirror held, leaves the table holding exactly the
\* ledger's data rows and returns their count.
C11_RebuildPostcondition ==
    (Rebuilt /\ pre.csv.exists /\ ~ConnectFault)
        => /\ MirrorEqualsLedger
           /\ ret = RetInt(Len(DataRows(csv_file)))

RebuildFailed ==
    \E i \in 1..Len(log) :
        log[i] \in { "Erro ao importar dados: Error tokenizing data",
                     "Erro ao importar dados: 'DATE'",
                     "Erro ao importar dados: Unknown datetime string format",
                     "Erro ao importar dados: unable to open database file" }

\* C13: a cycle that appended and whose rebuild failed leaves the ledger as
\* it was plus the new row, and an import_from_csv that follows it and does
\* not fail leaves the mirror equal to the ledger.
C13_AppendIsDurabilityBoundary ==
    [][/\ (Appended' /\ RebuildFailed')
            => csv_file'.lines
                 = (IF pre'.csv.exists THEN pre'.csv.lines ELSE <<Header>>)
                      \o <<CsvRow(novo_sorteio'[1])>>
       /\ (Appended /\ RebuildFailed /\ Rebuilt' /\ ~RebuildFailed')
            => MirrorEqualsLedger']_vars

\* The cycle that just ended got a record and did not append it
Rejected == Fetched /\ ~Appended

\* C14: a cycle whose record is rejected as already current leaves the
\* ledger and the mirror exactly as they were when the cycle started.
C14_RejectionIsNoOp == Rejected => csv_file = pre.csv /\ db_file = pre.db

C14_Witness ==
    /\ Rejected
    /\ Len(DataRows(csv_file)) >= 1
    /\ ~db_file.has_table
    /\ toordinal(novo_sorteio[1].data)
          < toordinal(ler_ultimo_sorteio(pre.csv).data)

\* C15: import_from_csv on an absent ledger returns 0, leaves the mirror as
\* it was and does not create the ledger file.
C15_RebuildAbsentLedger ==
    (Rebuilt /\ ~pre.csv.exists)
        => /\ ret = RetInt(0)
           /\ db_file = pre.db
           /\ csv_file = AbsentCsv

C15_Witness ==
    /\ Rebuilt
    /\ ~pre.csv.exists
    /\ db_file.has_table
    /\ Len(db_file.rows) >= 1

\* The weekdays that have a draw category of their own
DrawWeekdays == {"Tuesday", "Friday"}

\* C16: the extractor returns a record only for a date on a draw weekday,
\* and every ledger row is dated on a draw weekday (a date on another weekday
\* is a fault, never a row with a defaulted category).
C16_NonDrawWeekdayIsFault ==
    /\ Fetched => DayName(novo_sorteio[1].data) \in DrawWeekdays
    /\ \A i \in 1..Len(DataRows(csv_file)) :
           DayName(strptime_iso(DataRows(csv_file)[i][2])) \in DrawWeekdays

\* The Fridays of the calendar, read off a 2024 calendar
Fridays ==
    { <<2024, 5, 3>>, <<2024, 5, 10>>, <<2024, 5, 17>>, <<2024, 5, 24>>,
      <<2024, 5, 31>>, <<2024, 6, 7>>, <<2024, 6, 14>>, <<2024, 6, 21>>,
      <<2024, 6, 28>> }

TipoFor(d) == IF d \in Fridays THEN "Sexta-Feira" ELSE "Terca-Feira"

\* The type computed for every date of the calendar, all seven weekdays
CalendarTypes == \A d \in Calendar : SorteioTipo(d) = TipoFor(d)

\* C17: the record a cycle scraped has the Friday type when its date is a
\* Friday and the Tuesday type on each other weekday, and so has the type
\* computed for every date of the calendar.
C17_CategoryDerivation ==
    /\ Fetched => novo_sorteio[1].tipo = TipoFor(novo_sorteio[1].data)
    /\ CalendarTypes

C17_Witness ==
    /\ Fetched
    /\ DayName(novo_sorteio[1].data) = "Saturday"
    /\ novo_sorteio[1].tipo = "Terca-Feira"
    /\ \E i \in 1..Len(DataRows(csv_file)) :
           /\ strptime_iso(DataRows(csv_file)[i][2]) \in Fridays
           /\ DataRows(csv_file)[i][Len(DataRows(csv_file)[i])] = "Sexta-Feira"

\* C18: every row a cycle appends has the header's twelve fields, made from
\* a record of five main numbers and two bonus numbers; a results text with
\* other token counts appends nothing.
C18_RowShape ==
    Appended =>
        /\ Len(DataRows(csv_file)[Len(DataRows(csv_file))]) = Len(Header)
        /\ Len(novo_sorteio[1].numeros) = 5
        /\ Len(novo_sorteio[1].estrelas) = 2

\* C19: starting from an empty mirror, the mirror table is absent or its rows
\* are those of a prefix of the ledger's data rows.
C19_MirrorIsLedgerSnapshot ==
    db_file.has_table
        => \E k \in 0..Len(DataRows(csv_file)) :
               db_file.rows = TableOf(SubSeq(DataRows(csv_file), 1, k))
====
